---------------------------- MODULE Spec2Model ----------------------------
(***************************************************************************)
(* Model of the midea_ac_lan wire-protocol codec:                          *)
(*   midea/core/message.py        requests, responses, new-protocol body   *)
(*   midea/devices/ea/message.py  the EA device's variant decoder          *)
(* Bytes are integers 0..255, byte strings are sequences (1-based here,    *)
(* 0-based in the source: source index i is index i + 1 of the sequence).  *)
(***************************************************************************)
EXTENDS Integers, Sequences, FiniteSets, TLC

VARIABLES
    req,        \* the request object (a MessageRequest subclass instance)
    out,        \* the frame returned by the latest serialize() call
    resp,       \* MessageResponse(out), once it has been constructed
    lastop,     \* the latest operation applied to the request
    message,    \* an inbound byte sequence handed to a response class
    cls,        \* the response class constructed from message
    rsp,        \* the outcome of that construction
    data,       \* the body given to NewProtocolMessageBody
    bt,         \* the bt argument given to NewProtocolMessageBody
    pc,         \* position of the new-protocol decode / encode / decode run
    result,     \* parse() of data
    stream,     \* the body rebuilt from result with pack()
    result2     \* parse() of stream

vars == <<req, out, resp, lastop, message, cls, rsp, data, bt, pc, result, stream, result2>>

reqVars == <<req, out, resp, lastop>>
rspVars == <<message, cls, rsp>>
npVars == <<data, bt, pc, result, stream, result2>>

(***************************************************************************)
(* Bounds of the model.                                                    *)
(***************************************************************************)
MaxPayload == 2     \* longest payload (_body / cmd_body) of a request
MaxBody == 4        \* longest body of an arbitrary inbound frame
MaxEntries == 2     \* most entries written into a new-protocol body
MaxVal == 2         \* longest declared value of a new-protocol entry
MaxGarbage == 4     \* longest unstructured new-protocol body

(***************************************************************************)
(* Python values.                                                          *)
(***************************************************************************)
None == -1
NoneSeq == <<None>>

HEADER_LENGTH == 10

MT_set == 2
MT_query == 3
MT_notify1 == 4
MT_notify2 == 5
MT_querySubtype == 160

BitAnd255(x) == x % 256
BitNot(x) == (0 - x) - 1

Min(a, b) == IF a < b THEN a ELSE b
Max(a, b) == IF a > b THEN a ELSE b

\* data[a:b] for 0 <= a and 0 <= b: the bounds are clamped, nothing is raised
Slice(s, a, b) == SubSeq(s, Min(a, Len(s)) + 1, Min(b, Len(s)))

\* data[a:-1] for 0 <= a
SliceToLast(s, a) == Slice(s, a, Max(Len(s) - 1, 0))

RECURSIVE Sum(_)
Sum(s) == IF s = <<>> THEN 0 ELSE Head(s) + Sum(Tail(s))

Zeros(n) == [i \in 1..n |-> 0]

RECURSIVE SeqsUpTo(_, _)
SeqsUpTo(S, n) ==
    IF n = 0 THEN {<<>>}
    ELSE LET shorter == SeqsUpTo(S, n - 1)
         IN shorter \cup {Append(s, x) : s \in {t \in shorter : Len(t) = n - 1}, x \in S}

(***************************************************************************)
(* MessageBase.checksum                                                    *)
(***************************************************************************)
checksum_noNegate(bytes) == BitAnd255(Sum(bytes))

checksum(bytes) == BitAnd255(BitNot(Sum(bytes)) + 1)

(***************************************************************************)
(* MessageRequest and its subclasses.  A request is a record of the four   *)
(* MessageBase fields, the class (kind) and the bytes the subclass's _body *)
(* (or MessageQuestCustom's _cmd_body) returns.                            *)
(***************************************************************************)
MessageRequest(device_protocol_version, device_type, message_type, body_type, payload) ==
    [kind |-> "MessageRequest",
     device_protocol_version |-> device_protocol_version,
     device_type |-> device_type,
     message_type |-> message_type,
     body_type |-> body_type,
     payload |-> payload]

MessageQuerySubtype(device_type) ==
    [kind |-> "MessageQuerySubtype",
     device_protocol_version |-> 0,
     device_type |-> device_type,
     message_type |-> MT_querySubtype,
     body_type |-> 0,
     payload |-> Zeros(18)]

MessageQuestCustom(device_type, cmd_type, cmd_body) ==
    [kind |-> "MessageQuestCustom",
     device_protocol_version |-> 0,
     device_type |-> device_type,
     message_type |-> cmd_type,
     body_type |-> None,
     payload |-> cmd_body]

\* devices/ea: MessageQuery(device_protocol_version); its _body is empty
MessageQuery(device_protocol_version) ==
    [kind |-> "MessageQuery",
     device_protocol_version |-> device_protocol_version,
     device_type |-> 234,
     message_type |-> MT_query,
     body_type |-> None,
     payload |-> <<>>]

\* MessageRequest.body, not overridden
assembled_body(self) ==
    (IF self.body_type # None THEN <<self.body_type>> ELSE <<>>)
    \o (IF self.payload # NoneSeq THEN self.payload ELSE <<>>)

\* the body property, as the class of self defines it
body(self) ==
    CASE self.kind = "MessageQuestCustom" -> self.payload
      [] self.kind = "MessageQuery" -> <<170, 85, self.device_protocol_version, 3, 0>>
      [] OTHER -> assembled_body(self)

header_fixedLength(self) ==
    <<170, HEADER_LENGTH, self.device_type, 0, 0, 0, 0, 0,
      self.device_protocol_version, self.message_type>>

\* bytearray([...]) takes values 0..255 only: the bodies here keep length below 256
header(self) ==
    LET length == HEADER_LENGTH + Len(body(self))
    IN <<170, length, self.device_type, 0, 0, 0, 0, 0,
         self.device_protocol_version, self.message_type>>

serialize(self) ==
    LET s == header(self) \o body(self)
    IN Append(s, checksum(Slice(s, 1, Len(s))))

(***************************************************************************)
(* MessageBody and MessageResponse.  A construction that raises is the     *)
(* record [ok |-> FALSE, err |-> <the exception>].                         *)
(***************************************************************************)
Raise(e) == [ok |-> FALSE, err |-> e]

response_body_keepLast(msg) == Slice(msg, HEADER_LENGTH, Len(msg))

\* body = message[self.HEADER_LENGTH: -1]
response_body(msg) == SliceToLast(msg, HEADER_LENGTH)

MessageResponse(msg) ==
    IF msg = NoneSeq \/ Len(msg) < HEADER_LENGTH + 1 THEN Raise("MessageLenError")
    ELSE LET hdr == Slice(msg, 0, HEADER_LENGTH)
             bdy == response_body(msg)
         IN IF Len(bdy) = 0 THEN Raise("IndexError")   \* MessageBody.body_type: data[0]
            ELSE [ok |-> TRUE,
                  header |-> hdr,
                  device_protocol_version |-> hdr[9],
                  message_type |-> hdr[Len(hdr)],
                  device_type |-> hdr[3],
                  body |-> bdy,
                  body_type |-> bdy[1]]

(***************************************************************************)
(* The request under mutation and serialization.                           *)
(***************************************************************************)
DeviceTypes == {234, 255}
Versions == {0, 3}
MessageTypes == {MT_set, MT_querySubtype}
BodyTypes == {0, 181, None}
PayloadBytes == {1, 255}
Payloads == SeqsUpTo(PayloadBytes, MaxPayload)

NoFrame == <<>>
NoResponse == [ok |-> FALSE, err |-> "not constructed"]

ReqIdle == req = [kind |-> "none"] /\ out = NoFrame /\ resp = NoResponse /\ lastop = "idle"
RspIdle == message = <<>> /\ cls = "idle" /\ rsp = NoResponse
NpIdle == data = <<>> /\ bt = 0 /\ pc = "idle" /\ result = <<>> /\ stream = <<>> /\ result2 = <<>>

InitReq ==
    /\ RspIdle
    /\ NpIdle
    /\ \/ \E v \in Versions, d \in DeviceTypes, t \in MessageTypes, b \in BodyTypes,
             p \in Payloads \cup {NoneSeq} : req = MessageRequest(v, d, t, b, p)
       \/ \E d \in DeviceTypes : req = MessageQuerySubtype(d)
       \/ \E d \in DeviceTypes, t \in MessageTypes, p \in Payloads :
             req = MessageQuestCustom(d, t, p)
       \/ \E v \in Versions : req = MessageQuery(v)
    /\ out = NoFrame
    /\ resp = NoResponse
    /\ lastop = "init"

SetDeviceType ==
    /\ \E value \in DeviceTypes : req' = [req EXCEPT !.device_type = value]
    /\ lastop' = "set"
    /\ UNCHANGED <<out, resp, rspVars, npVars>>

SetDeviceProtocolVersion ==
    /\ \E value \in Versions : req' = [req EXCEPT !.device_protocol_version = value]
    /\ lastop' = "set"
    /\ UNCHANGED <<out, resp, rspVars, npVars>>

SetMessageType ==
    /\ \E value \in MessageTypes : req' = [req EXCEPT !.message_type = value]
    /\ lastop' = "set"
    /\ UNCHANGED <<out, resp, rspVars, npVars>>

SetBodyType ==
    /\ \E value \in BodyTypes : req' = [req EXCEPT !.body_type = value]
    /\ lastop' = "set"
    /\ UNCHANGED <<out, resp, rspVars, npVars>>

Serialize ==
    /\ out' = serialize(req)
    /\ resp' = NoResponse
    /\ lastop' = "serialize"
    /\ UNCHANGED <<req, rspVars, npVars>>

\* MessageResponse(request.serialize())
ParseSerialized ==
    /\ lastop = "serialize"
    /\ resp' = MessageResponse(out)
    /\ lastop' = "parse"
    /\ UNCHANGED <<req, out, rspVars, npVars>>

NextReq ==
    \/ SetDeviceType
    \/ SetDeviceProtocolVersion
    \/ SetMessageType
    \/ SetBodyType
    \/ Serialize
    \/ ParseSerialized

SpecReq == InitReq /\ [][NextReq]_vars

(***************************************************************************)
(* Claims about requests.                                                  *)
(***************************************************************************)
\* the kinds whose body is assembled by MessageRequest.body
BaseBodyKinds == {"MessageRequest", "MessageQuerySubtype"}

\* the bytes a request puts between the header and the trailing byte
RequestBodyBytes(r) ==
    CASE r.kind = "MessageQuestCustom" -> r.payload
      [] r.kind = "MessageQuery" -> <<170, 85, r.device_protocol_version, 3, 0>>
      [] OTHER -> (IF r.body_type = None THEN <<>> ELSE <<r.body_type>>)
                  \o (IF r.payload = NoneSeq THEN <<>> ELSE r.payload)

Serialized == lastop \in {"serialize", "parse"}

\* C1: a serialized frame starts with 0xAA, its length byte is 10 plus the
\* number of body bytes (body_type byte included when present), which is
\* len(out) - 1, and its last byte is checksum(out[1:-1]) = (-sum(out[1:-1])) mod 256.
C1_SerializeFrame ==
    Serialized =>
        /\ Len(out) >= HEADER_LENGTH + 1
        /\ out[1] = 170
        /\ out[2] = 10 + Len(RequestBodyBytes(req))
        /\ out[2] = Len(out) - 1
        /\ SubSeq(out, HEADER_LENGTH + 1, Len(out) - 1) = RequestBodyBytes(req)
        /\ out[Len(out)] = checksum(SubSeq(out, 2, Len(out) - 1))
        /\ out[Len(out)] = (256 - (Sum(SubSeq(out, 2, Len(out) - 1)) % 256)) % 256

C1_Witness ==
    /\ lastop = "serialize"
    /\ req.kind = "MessageRequest"
    /\ req.body_type = 181
    /\ req.payload = <<255, 255>>
    /\ Len(out) = 14
    /\ out[Len(out)] # 0

C9_NotCached ==
    [][lastop' = "serialize" =>
          /\ req' = req
          /\ out'[3] = req.device_type
          /\ out'[9] = req.device_protocol_version
          /\ out'[10] = req.message_type
          /\ out'[2] = Len(out') - 1
          /\ SubSeq(out', HEADER_LENGTH + 1, Len(out') - 1) = RequestBodyBytes(req)
          /\ (out'[Len(out')] + Sum(SubSeq(out', 2, Len(out') - 1))) % 256 = 0
          /\ (lastop = "serialize" => out' = out)]_vars

\* a frame serialized after a setter changed the version the constructor fixed
C9_Witness ==
    /\ lastop = "serialize"
    /\ req.kind = "MessageQuerySubtype"
    /\ req.device_protocol_version = 3
    /\ req.body_type = 181
    /\ out[9] = 3
    /\ out[11] = 181

(***************************************************************************)
(* MessageSubtypeResponse                                                  *)
(***************************************************************************)
NoAttrs == [n \in {} |-> 0]

\* source index i of a byte string
At(b, i) == b[i + 1]

sub_type_lowByteOnly(b) == IF Len(b) > 2 THEN At(b, 2) ELSE 0

sub_type(b) ==
    (IF Len(b) > 2 THEN At(b, 2) ELSE 0) + (IF Len(b) > 3 THEN At(b, 3) * 256 ELSE 0)

MessageSubtypeResponse(msg) ==
    LET base == MessageResponse(msg)
    IN IF ~base.ok THEN base
       ELSE IF base.message_type = MT_querySubtype
            THEN base @@ [attrs |-> [sub_type |-> sub_type(response_body(msg))]]
            ELSE base @@ [attrs |-> NoAttrs]

(***************************************************************************)
(* devices/ea: EABody1, EABody2, EABody3 and MessageEAResponse.  A body    *)
(* class is the record of the attributes its constructor sets besides      *)
(* data; an index past the end of the body raises IndexError.              *)
(***************************************************************************)
EABody1(b) ==
    IF Len(b) < 28 THEN Raise("IndexError")
    ELSE [ok |-> TRUE, shape |-> "EABody1",
          attrs |-> [mode |-> At(b, 6) + At(b, 7) * 256,
                     progress |-> At(b, 14),
                     cooking |-> (At(b, 14) = 2),
                     keep_warm |-> (At(b, 14) = 3),
                     top_temperature |-> At(b, 18),
                     bottom_temperature |-> At(b, 19),
                     time_remaining |-> At(b, 22) * 60 + At(b, 23),
                     keep_warm_time |-> At(b, 26) * 60 + At(b, 27)]]

EABody2(b) ==
    IF Len(b) < 60 THEN Raise("IndexError")
    ELSE [ok |-> TRUE, shape |-> "EABody2",
          attrs |-> [progress |-> At(b, 9),
                     cooking |-> (At(b, 9) = 2),
                     keep_warm |-> (At(b, 9) = 3),
                     mode |-> At(b, 58) + At(b, 59) * 256,
                     time_remaining |-> At(b, 50) * 60 + At(b, 51),
                     keep_warm_time |-> At(b, 54) * 60 + At(b, 55),
                     top_temperature |-> At(b, 21),
                     bottom_temperature |-> At(b, 20)]]

EABody3(b) ==
    IF Len(b) < 24 THEN Raise("IndexError")
    ELSE [ok |-> TRUE, shape |-> "EABody3",
          attrs |-> [mode |-> At(b, 4) + At(b, 5) * 256,
                     progress |-> At(b, 8),
                     cooking |-> (At(b, 8) = 2),
                     keep_warm |-> (At(b, 8) = 3),
                     time_remaining |-> At(b, 12) * 60 + At(b, 13),
                     top_temperature |-> At(b, 20),
                     bottom_temperature |-> At(b, 21),
                     keep_warm_time |-> At(b, 22) * 60 + At(b, 23)]]

\* self.mode = body[4] + (body[5] << 8), the body object left as it is
ModeOnly(b) ==
    IF Len(b) < 6 THEN Raise("IndexError")
    ELSE [ok |-> TRUE, shape |-> "MessageBody",
          attrs |-> [mode |-> At(b, 4) + At(b, 5) * 256]]

Unmatched == [ok |-> TRUE, shape |-> "MessageBody", attrs |-> NoAttrs]

\* version 0, message type query, with the two tests in the other order
ea_v0_query_3dFirst(b) ==
    IF Len(b) <= 6 THEN Raise("IndexError")
    ELSE IF At(b, 5) = 61 THEN EABody1(b)
    ELSE IF At(b, 6) = 82
         THEN IF Len(b) <= 7 THEN Raise("IndexError")
              ELSE IF At(b, 7) = 195 THEN EABody2(b) ELSE Unmatched
    ELSE Unmatched

\* version 0, message type query
ea_v0_query(b) ==
    IF Len(b) <= 6 THEN Raise("IndexError")
    ELSE IF At(b, 6) = 82
         THEN IF Len(b) <= 7 THEN Raise("IndexError")
              ELSE IF At(b, 7) = 195 THEN EABody2(b)
              ELSE IF At(b, 5) = 61 THEN EABody1(b) ELSE Unmatched
    ELSE IF At(b, 5) = 61 THEN EABody1(b) ELSE Unmatched

\* version 0: the and / elif chain, each body[i] read only when reached
ea_v0(mt, b) ==
    IF mt = MT_set
    THEN IF Len(b) <= 5 THEN Raise("IndexError")
         ELSE IF At(b, 5) = 22 THEN EABody1(b) ELSE Unmatched
    ELSE IF mt = MT_query THEN ea_v0_query(b)
    ELSE IF mt = MT_notify1
    THEN IF Len(b) <= 5 THEN Raise("IndexError")
         ELSE IF At(b, 5) = 61 THEN EABody1(b) ELSE Unmatched
    ELSE Unmatched

\* version other than 0
ea_v1(mt, b) ==
    IF mt \in {MT_set, MT_query, MT_notify1}
    THEN IF Len(b) <= 3 THEN Raise("IndexError")
         ELSE IF \/ mt = MT_set /\ At(b, 3) = 2
                 \/ mt = MT_query /\ At(b, 3) = 3
                 \/ mt = MT_notify1 /\ At(b, 3) = 4
              THEN EABody3(b)
              ELSE IF mt = MT_notify1 /\ At(b, 3) = 6 THEN ModeOnly(b) ELSE Unmatched
    ELSE Unmatched

\* set_body, the mode assignment and set_attr: the decoded fields on the response
MessageEAResponse(msg) ==
    LET base == MessageResponse(msg)
    IN IF ~base.ok THEN base
       ELSE LET decoded == IF base.device_protocol_version = 0
                           THEN ea_v0(base.message_type, base.body)
                           ELSE ea_v1(base.message_type, base.body)
            IN IF ~decoded.ok THEN decoded
               ELSE base @@ [shape |-> decoded.shape, attrs |-> decoded.attrs]

(***************************************************************************)
(* Inbound byte sequences given to the response classes.                   *)
(***************************************************************************)
InVersions == {0, 1}
InMessageTypes == {MT_set, MT_query, MT_notify1, MT_notify2, MT_querySubtype}
BodyBytes == {0, 1, 7}

InHeader(v, t) == <<170, 0, 234, 0, 0, 0, 0, 0, v, t>>

\* every prefix of a frame with a short body, and None
ShortMessages ==
    {NoneSeq} \cup
    {Slice(InHeader(v, t) \o b \o <<90>>, 0, n) :
        v \in InVersions, t \in InMessageTypes,
        b \in SeqsUpTo(BodyBytes, MaxBody), n \in 0..(HEADER_LENGTH + MaxBody + 1)}

\* EA bodies around the lengths the three layouts need, the probed offsets
\* 3, 5, 6, 7 drawn from the values the decoder tests and from 0
EALengths == {4, 5, 6, 7, 8, 23, 24, 27, 28, 59, 60}
EAFill(i, seed) == (seed + 3 * i) % 256

EABodyBytes(n, p3, p5, p6, p7, seed) ==
    [k \in 1..n |->
        CASE k = 4 -> p3
          [] k = 6 -> p5
          [] k = 7 -> p6
          [] k = 8 -> p7
          [] OTHER -> EAFill(k - 1, seed)]

EAMessages ==
    {InHeader(v, t) \o EABodyBytes(n, p3, p5, p6, p7, seed) \o <<90>> :
        v \in InVersions, t \in InMessageTypes, n \in EALengths,
        p3 \in {0, 2, 3, 4, 6}, p5 \in {0, 22, 61}, p6 \in {0, 82}, p7 \in {0, 195},
        seed \in {0, 216}}

InitRsp ==
    /\ ReqIdle
    /\ NpIdle
    /\ message \in ShortMessages \cup EAMessages
    /\ cls = "none"
    /\ rsp = NoResponse

ConstructResponse ==
    /\ cls = "none"
    /\ cls' = "MessageResponse"
    /\ rsp' = MessageResponse(message)
    /\ UNCHANGED <<message, reqVars, npVars>>

ConstructSubtypeResponse ==
    /\ cls = "none"
    /\ cls' = "MessageSubtypeResponse"
    /\ rsp' = MessageSubtypeResponse(message)
    /\ UNCHANGED <<message, reqVars, npVars>>

ConstructEAResponse ==
    /\ cls = "none"
    /\ cls' = "MessageEAResponse"
    /\ rsp' = MessageEAResponse(message)
    /\ UNCHANGED <<message, reqVars, npVars>>

NextRsp ==
    \/ ConstructResponse
    \/ ConstructSubtypeResponse
    \/ ConstructEAResponse

SpecRsp == InitRsp /\ [][NextRsp]_vars

(***************************************************************************)
(* Claims about responses.                                                 *)
(***************************************************************************)
\* the body of an inbound frame of at least 11 bytes: frame[10:-1]
FrameBody(msg) == SubSeq(msg, HEADER_LENGTH + 1, Len(msg) - 1)

IsFrame(msg) == msg # NoneSeq /\ Len(msg) >= HEADER_LENGTH + 1

\* C3: a byte sequence shorter than 11 bytes is refused with MessageLenError,
\* and one of exactly 11 bytes parses to a response with an empty raw body.
C3_ParseBoundary ==
    cls = "MessageResponse" =>
        /\ (~IsFrame(message) => ~rsp.ok /\ rsp.err = "MessageLenError")
        /\ (IsFrame(message) /\ Len(message) = HEADER_LENGTH + 1
               => rsp.ok /\ rsp.body = <<>>)

Probe(b, i, v) == i < Len(b) /\ At(b, i) = v

TableShape(v, t, b) ==
    IF v = 0
    THEN IF t = MT_set /\ Probe(b, 5, 22) THEN "EABody1"
         ELSE IF t = MT_query /\ Probe(b, 6, 82) /\ Probe(b, 7, 195) THEN "EABody2"
         ELSE IF t = MT_query /\ Probe(b, 5, 61) THEN "EABody1"
         ELSE IF t = MT_notify1 /\ Probe(b, 5, 61) THEN "EABody1"
         ELSE "none"
    ELSE IF \/ t = MT_set /\ Probe(b, 3, 2)
            \/ t = MT_query /\ Probe(b, 3, 3)
            \/ t = MT_notify1 /\ Probe(b, 3, 4)
         THEN "EABody3"
         ELSE IF t = MT_notify1 /\ Probe(b, 3, 6) THEN "mode" ELSE "none"

\* the body length each shape reads up to
ShapeLength(shape) ==
    CASE shape = "EABody1" -> 28
      [] shape = "EABody2" -> 60
      [] shape = "EABody3" -> 24
      [] shape = "mode" -> 6
      [] OTHER -> 0

AllFields ==
    {"mode", "progress", "cooking", "keep_warm", "top_temperature",
     "bottom_temperature", "time_remaining", "keep_warm_time"}

\* where each shape reads mode (low byte) and progress
ModeOffset(shape) ==
    CASE shape = "EABody1" -> 6 [] shape = "EABody2" -> 58 [] OTHER -> 4
ProgressOffset(shape) ==
    CASE shape = "EABody1" -> 14 [] shape = "EABody2" -> 9 [] OTHER -> 8

\* C6: the shape decoded from a frame is the one the decision table selects,
\* rows taken in the listed order, whenever the body is long enough for that
\* shape; the fields are read at the shape's offsets; a frame no row matches
\* gets no shape; the mode-only row sets mode alone and replaces no body.
C6_VariantSelection ==
    (cls = "MessageEAResponse" /\ IsFrame(message) /\ Len(FrameBody(message)) >= 1) =>
        LET b == FrameBody(message)
            sel == TableShape(message[9], message[10], b)
        IN /\ (sel \in {"EABody1", "EABody2", "EABody3"} /\ Len(b) >= ShapeLength(sel)) =>
                 /\ rsp.ok
                 /\ rsp.shape = sel
                 /\ DOMAIN rsp.attrs = AllFields
                 /\ rsp.attrs.mode = At(b, ModeOffset(sel)) + At(b, ModeOffset(sel) + 1) * 256
                 /\ rsp.attrs.progress = At(b, ProgressOffset(sel))
                 /\ rsp.attrs.cooking = (rsp.attrs.progress = 2)
                 /\ rsp.attrs.keep_warm = (rsp.attrs.progress = 3)
           /\ (sel = "mode" /\ Len(b) >= ShapeLength(sel)) =>
                 /\ rsp.ok
                 /\ rsp.shape = "MessageBody"
                 /\ DOMAIN rsp.attrs = {"mode"}
                 /\ rsp.attrs.mode = At(b, 4) + At(b, 5) * 256
           /\ (sel = "none" /\ rsp.ok) =>
                 /\ rsp.shape = "MessageBody"
                 /\ DOMAIN rsp.attrs = {}

\* version 0, query, both the EABody2 and the EABody1 row match: EABody2 wins
C6_Witness ==
    /\ cls = "MessageEAResponse"
    /\ IsFrame(message)
    /\ message[9] = 0
    /\ message[10] = MT_query
    /\ Len(FrameBody(message)) = 60
    /\ Probe(FrameBody(message), 5, 61)
    /\ Probe(FrameBody(message), 6, 82)
    /\ Probe(FrameBody(message), 7, 195)
    /\ rsp.ok
    /\ rsp.shape = "EABody2"

\* C7: for a frame the generic parser accepts and no row of the decision table
\* matches, MessageEAResponse is constructed without raising, its body is the
\* raw body and no decoded field is set.
C7_UnmatchedIsQuiet ==
    (cls = "MessageEAResponse" /\ IsFrame(message) /\ MessageResponse(message).ok
        /\ TableShape(message[9], message[10], FrameBody(message)) = "none") =>
        /\ rsp.ok
        /\ rsp.body = FrameBody(message)
        /\ DOMAIN rsp.attrs = {}

(***************************************************************************)
(* NewProtocolMessageBody.  The dict parse() returns is the sequence of    *)
(* its items [param, value] in insertion order.                            *)
(***************************************************************************)
\* NewProtocolMessageBody.__init__: self._pack_len
pack_len_of(b) == IF b = 181 THEN 4 ELSE 5

pack_noReserved(param, value, pack_len) ==
    <<param % 256, param \div 256, Len(value)>> \o value

pack(param, value, pack_len) ==
    LET length == Len(value)
    IN IF pack_len = 4
       THEN <<param % 256, param \div 256, length>> \o value
       ELSE <<param % 256, param \div 256, 0, length>> \o value

\* result[param] = value
DictSet(d, param, value) ==
    IF \E i \in 1..Len(d) : d[i].param = param
    THEN [i \in 1..Len(d) |-> IF d[i].param = param
                               THEN [param |-> param, value |-> value] ELSE d[i]]
    ELSE Append(d, [param |-> param, value |-> value])

\* the for loop of parse(): n iterations left, cursor pos, result so far.
\* An index past the end raises IndexError, which parse() catches and logs;
\* the slice of the value raises nothing.
RECURSIVE parse_loop(_, _, _, _, _)
parse_loop(dat, pack_len, n, pos, res) ==
    IF n = 0 THEN [map |-> res, caught |-> FALSE]
    ELSE IF pos + 1 >= Len(dat) THEN [map |-> res, caught |-> TRUE]
    ELSE LET param == At(dat, pos) + At(dat, pos + 1) * 256
             p == IF pack_len = 5 THEN pos + 1 ELSE pos
         IN IF p + 2 >= Len(dat) THEN [map |-> res, caught |-> TRUE]
            ELSE LET length == At(dat, p + 2)
                     value == Slice(dat, p + 3, p + 3 + length)
                     res2 == IF length > 0 THEN DictSet(res, param, value) ELSE res
                 IN parse_loop(dat, pack_len, n - 1, p + 3 + length, res2)

\* NewProtocolMessageBody(dat, b).parse()
parse(dat, b) ==
    IF Len(dat) <= 1 THEN [map |-> <<>>, caught |-> TRUE]
    ELSE parse_loop(dat, pack_len_of(b), At(dat, 1), 2, <<>>)

\* [marker, number of entries] followed by pack() of every item of the dict
RECURSIVE pack_all(_, _)
pack_all(d, pack_len) ==
    IF d = <<>> THEN <<>>
    ELSE pack(d[1].param, d[1].value, pack_len) \o pack_all(Tail(d), pack_len)

encode(d, b) == <<b, Len(d)>> \o pack_all(d, pack_len_of(b))

(***************************************************************************)
(* Bodies given to the new-protocol decoder: bodies written entry by entry *)
(* in the layout of the marker, with the declared count off by one either  *)
(* way and cut at any length, and short unstructured byte strings.         *)
(***************************************************************************)
Markers == {181, 0}
ParamIds == {1, 258}
GarbageBytes == {0, 1, 2}

\* the value of the k-th entry written: len bytes, all different
ValueBytes(k, len) == [j \in 1..len |-> 16 * k + j]

RECURSIVE WriteEntries(_, _, _, _)
WriteEntries(ids, lens, k, pack_len) ==
    IF k > Len(ids) THEN <<>>
    ELSE (IF pack_len = 4 THEN <<ids[k] % 256, ids[k] \div 256, lens[k]>>
                          ELSE <<ids[k] % 256, ids[k] \div 256, 0, lens[k]>>)
         \o ValueBytes(k, lens[k])
         \o WriteEntries(ids, lens, k + 1, pack_len)

StructuredBodies(b) ==
    UNION {
      {Slice(<<b, c>> \o WriteEntries(ids, lens, 1, pack_len_of(b)), 0, cut) :
          c \in {x \in {n - 1, n, n + 1} : x >= 0},
          cut \in 0..(2 + n * (4 + MaxVal))}
      : <<n, ids, lens>> \in
          UNION {{<<m, i, l>> : i \in [1..m -> ParamIds], l \in [1..m -> 0..MaxVal]}
                 : m \in 0..MaxEntries}}

InitNP ==
    /\ ReqIdle
    /\ RspIdle
    /\ bt \in Markers
    /\ data \in StructuredBodies(bt) \cup SeqsUpTo(GarbageBytes, MaxGarbage)
    /\ pc = "start"
    /\ result = [map |-> <<>>, caught |-> FALSE]
    /\ stream = <<>>
    /\ result2 = [map |-> <<>>, caught |-> FALSE]

NPParse ==
    /\ pc = "start"
    /\ result' = parse(data, bt)
    /\ pc' = "parsed"
    /\ UNCHANGED <<data, bt, stream, result2, reqVars, rspVars>>

NPEncode ==
    /\ pc = "parsed"
    /\ stream' = encode(result.map, bt)
    /\ pc' = "encoded"
    /\ UNCHANGED <<data, bt, result, result2, reqVars, rspVars>>

NPReparse ==
    /\ pc = "encoded"
    /\ result2' = parse(stream, bt)
    /\ pc' = "reparsed"
    /\ UNCHANGED <<data, bt, result, stream, reqVars, rspVars>>

NextNP ==
    \/ NPParse
    \/ NPEncode
    \/ NPReparse

SpecNP == InitNP /\ [][NextNP]_vars

(***************************************************************************)
(* Claims about the new-protocol body.                                     *)
(***************************************************************************)
\* The entries a body declares, in order, as the layout lays them out: n still
\* declared, the next one starting at pos.  An entry is listed once its
\* prefix (id, reserved byte if any, length byte) lies within the body; it is
\* complete when its declared value bytes do too.
RECURSIVE Entries(_, _, _, _)
Entries(dat, pack_len, n, pos) ==
    IF n = 0 \/ pos + (pack_len - 1) > Len(dat) THEN <<>>
    ELSE LET length == At(dat, pos + pack_len - 2)
             start == pos + pack_len - 1
         IN <<[param |-> At(dat, pos) + At(dat, pos + 1) * 256,
               length |-> length,
               value |-> Slice(dat, start, start + length),
               complete |-> start + length <= Len(dat)]>>
            \o Entries(dat, pack_len, n - 1, start + length)

Declared(dat, b) ==
    IF Len(dat) < 2 THEN <<>> ELSE Entries(dat, pack_len_of(b), At(dat, 1), 2)

\* every declared entry is there, whole
WellFormed(dat, b) ==
    /\ Len(dat) >= 2
    /\ Len(Declared(dat, b)) = At(dat, 1)
    /\ \A k \in 1..Len(Declared(dat, b)) : Declared(dat, b)[k].complete

Items(d) == {d[i] : i \in 1..Len(d)}

Parsed == pc \in {"parsed", "encoded", "reparsed"}

\* C4: parse() returns for every body, and the mapping it returns contains
\* every entry that was completely present (a later complete entry of the same
\* id replacing an earlier one).
C4_CompleteEntriesKept ==
    Parsed =>
        LET es == Declared(data, bt)
            kept(k) == es[k].complete /\ es[k].length > 0
        IN \A k \in 1..Len(es) :
              (kept(k) /\ ~\E j \in (k + 1)..Len(es) : kept(j) /\ es[j].param = es[k].param)
              => [param |-> es[k].param, value |-> es[k].value] \in Items(result.map)

\* C10: every value of the mapping parse() returns is non-empty and has the
\* length its entry's length byte declares; a partly present value is not
\* returned shortened.
C10_ValuesHaveDeclaredLength ==
    Parsed =>
        \A item \in Items(result.map) :
            /\ Len(item.value) > 0
            /\ \E k \in 1..Len(Declared(data, bt)) :
                  LET e == Declared(data, bt)[k]
                  IN e.param = item.param /\ e.value = item.value
                     /\ e.length = Len(item.value) /\ e.complete

\* C5: for a well-formed body with mapping M = parse(body), the body
\* [marker, |M|] followed by pack(id, value, pack_len) of every entry of M
\* decodes to M again, in both prefix layouts.
C5_EncodeDecodeRoundTrip ==
    (pc = "reparsed" /\ WellFormed(data, bt)) =>
        /\ result2.map = result.map
        /\ ~result2.caught
        /\ \A item \in Items(result.map) : Len(item.value) \in 1..255

\* two entries of different ids in the 5-byte layout, decoded twice
C5_Witness ==
    /\ pc = "reparsed"
    /\ WellFormed(data, bt)
    /\ bt # 181
    /\ Len(result.map) = 2
    /\ result.map[1].param = 258
    /\ Len(result.map[1].value) = 2
    /\ result2.map = result.map

=============================================================================
